---- MODULE Spec2Model ----
(***************************************************************************)
(* Model of app.py, the label-sheet generator: the "Load Preview" handler, *)
(* the fast preview render, and the "Generate Full PDF" handler with its   *)
(* batch loop, as one state machine.                                       *)
(*                                                                         *)
(* Lengths entered in the widgets are counted in twentieths of an inch     *)
(* (the 0.05 in grid of the sliders); on that grid Python's int(v * dpi)   *)
(* equals the exact floor for dpi 72 and 300, which is what Px computes.   *)
(* A raster is represented by the 1-based number of the source page it was *)
(* rendered from; a sheet canvas by the set of pastes made into it and the *)
(* set of cells that got a guide rectangle.                                *)
(***************************************************************************)
EXTENDS Integers, Sequences, FiniteSets, TLC

\* ------------------------------------------------------------------ bounds
\* Specification Spec: the batch pipeline over small documents and grids.
MaxPages == 10
MaxStart == 5
MaxCols == 3
MaxRows == 4
MaxBatch == 3
\* Specification SpecGeom: the geometry over many sheet configurations.
GeomMaxPages == 2
GeomMaxStart == 2

\* Grids of SpecGeom <<cols, rows>>: within the widgets' ranges (cols 1..10,
\* rows 1..20), wide and tall enough for the auto-fill cell to vanish.
GeomGrids == {<<1, 1>>, <<2, 1>>, <<2, 2>>, <<4, 3>>, <<7, 1>>, <<1, 9>>}
\* Widget values of SpecGeom, in twentieths of an inch.
GeomLeftMargins == {0, 7, 40}
GeomRightMargins == {5, 40}
GeomTopMargins == {40}
GeomHGaps == {3, 20}
GeomVGaps == {7, 20}
GeomScales == {50, 100}

\* ------------------------------------------------------------ program text
preview_dpi == 72
final_dpi == 300

VARIABLES
  \* the uploaded document and the widget values (inputs of a run)
  doc_pages, sheet_width, sheet_height, cols, rows, h_spacing, v_spacing,
  m_top, m_left, m_right, use_custom_size, label_w_input, label_h_input,
  show_grid, img_scale, resize_mode, start_pos, batch_size,
  \* st.session_state
  total_pages, preview_image,
  \* position of the script, and the exception that ended it ("none")
  pc, err,
  \* every convert_from_bytes call made: <<first_page, last_page, dpi>>
  rasterizer_calls,
  \* the preview render
  final_label_w, final_label_h, preview_sheet,
  \* the generate handler
  f_ml, f_mt, f_hspace, f_vspace, f_avail_w, f_avail_h, f_lbl_w, f_lbl_h,
  output_sheets, labels_per_sheet, total_out_sheets, grid_position,
  label_read_head, batch_end, current_sheet, batch_images, batch_idx, img,
  progress, pdf_buffer, download

inputs == <<doc_pages, sheet_width, sheet_height, cols, rows, h_spacing,
            v_spacing, m_top, m_left, m_right, use_custom_size, label_w_input,
            label_h_input, show_grid, img_scale, resize_mode, start_pos,
            batch_size>>
session == <<total_pages, preview_image>>
preview == <<final_label_w, final_label_h, preview_sheet>>
geometry == <<f_ml, f_mt, f_hspace, f_vspace, f_avail_w, f_avail_h, f_lbl_w,
              f_lbl_h>>
plan == <<labels_per_sheet, total_out_sheets>>
assembly == <<output_sheets, grid_position, current_sheet, progress>>
window == <<label_read_head, batch_end, batch_images, batch_idx, img>>
artifact == <<pdf_buffer, download>>
vars == <<inputs, session, pc, err, rasterizer_calls, preview, geometry, plan,
          assembly, window, artifact>>

\* ----------------------------------------------------------------- helpers
Min(a, b) == IF a <= b THEN a ELSE b
Max(a, b) == IF a >= b THEN a ELSE b

\* Python's int() of an exact value n/d, d > 0: truncation towards zero.
Trunc(n, d) == IF n >= 0 THEN n \div d ELSE -((-n) \div d)

\* int(v * dpi) for a length of v twentieths of an inch.
Px(v, dpi) == Trunc(v * dpi, 20)

\* int(w * (img_scale / 100))
Scaled(w) == Trunc(w * img_scale, 100)

\* Image.new('RGB', size, 'white'): a canvas with nothing pasted or drawn.
BlankSheet == [pastes |-> {}, guides |-> {}]

NoImage == 0

\* ---------------------------------------------------------------- rasterizer
\* convert_from_bytes(file_bytes, first_page, last_page, dpi) when it returns:
\* one raster per page of the range that the document has, in page order.
Rasterize(first, last) ==
  LET hi == Min(last, doc_pages)
  IN  [k \in 1..Max(hi - first + 1, 0) |-> first + k - 1]

\* ------------------------------------------------------------------ geometry
\* Mutant: the cell size rounded up instead of down.
LabelSizeRoundedUp(avail, n, space) ==
  (avail - ((n - 1) * space) + (n - 1)) \div n

\* Auto-fill cell size: (avail - ((n - 1) * space)) // n
LabelSize(avail, n, space) == (avail - ((n - 1) * space)) \div n

\* Origin of the cell at column or row index idx.
CellOrigin(margin, idx, size, space) == margin + idx * (size + space)

\* Centering offset of a raster of the given extent within a cell.
CenterOffset(cell, extent) == (cell - extent) \div 2

\* Extent of the composited raster along one axis: the effective size; a crop
\* to an inverted box leaves an empty raster.
ResizedExtent(eff) == Max(eff, 0)

\* Whether the compositor can return a raster for effective size eff_w x eff_h.
\* resize() rejects any non-positive size; in "fill" mode the uniform ratio is
\* the larger of the two, so the resize goes through as long as one effective
\* side is positive (the crop that follows depends on the imaging library).
CompositeCanSucceed(eff_w, eff_h) ==
  \/ eff_w > 0 /\ eff_h > 0
  \/ resize_mode = "fill" /\ (eff_w > 0 \/ eff_h > 0)

\* Whether the compositor can raise: always (any imaging call may, e.g. for
\* lack of memory), and certainly when CompositeCanSucceed is false.
CompositeCanFail(eff_w, eff_h) == TRUE

\* ------------------------------------------------------------------- preview
\* Mutant: the upper limit of the preview position dropped.
PreviewShowsLabelFrom(visual_pos) == visual_pos >= start_pos

\* The cell of the preview that shows the page-1 thumbnail.
PreviewShowsLabel(visual_pos) ==
  visual_pos >= start_pos /\ visual_pos < (start_pos + 1)

\* ----------------------------------------------------------- sheet assembly
\* The assembler's state as a record, so that the loop body is a function.
Assembly(out, gp, cur, prog) ==
  [output_sheets |-> out, grid_position |-> gp, current_sheet |-> cur,
   progress |-> prog]

\* Mutant: the ratio reported without the clamp.
LoopProgressUnclamped(n_sheets) == 100 * n_sheets

\* progress_bar.progress(min(len(output_sheets) / total_out_sheets, 0.99)),
\* the value counted in units of 1 / (100 * total_out_sheets).
LoopProgress(n_sheets) == Min(100 * n_sheets, 99 * total_out_sheets)
\* progress_bar.progress(1.0) in the same units.
FullProgress == 100 * total_out_sheets

\* Mutant: the 1-based start position taken as the number of cells to skip.
SkipMoreOffByOne(gp) == gp < start_pos

\* while grid_position < (start_pos - 1): ... grid_position += 1
SkipMore(gp) == gp < (start_pos - 1)

RECURSIVE SkipLeading(_)
SkipLeading(a) ==
  IF SkipMore(a.grid_position)
  THEN LET full == (a.grid_position + 1) % labels_per_sheet = 0
       IN  SkipLeading(Assembly(
             IF full THEN Append(a.output_sheets, a.current_sheet)
                     ELSE a.output_sheets,
             a.grid_position + 1,
             IF full THEN BlankSheet ELSE a.current_sheet,
             a.progress))
  ELSE a

\* The sheet is sealed after the paste that fills its last cell.
SheetFull(pos_on_sheet) == (pos_on_sheet + 1) = labels_per_sheet

\* Cell addressing, centre paste, grid_position advance and sealing for one
\* raster, after the leading cells have been skipped.
PasteLabel(a, page) ==
  LET pos_on_sheet == a.grid_position % labels_per_sheet
      c_idx == pos_on_sheet % cols
      r_idx == pos_on_sheet \div cols
      x == CellOrigin(f_ml, c_idx, f_lbl_w, f_hspace)
      y == CellOrigin(f_mt, r_idx, f_lbl_h, f_vspace)
      dest_x == x + CenterOffset(f_lbl_w, ResizedExtent(Scaled(f_lbl_w)))
      dest_y == y + CenterOffset(f_lbl_h, ResizedExtent(Scaled(f_lbl_h)))
      pasted == [a.current_sheet EXCEPT !.pastes = @ \cup
                   {[page |-> page, pos |-> pos_on_sheet, c_idx |-> c_idx,
                     r_idx |-> r_idx, dest_x |-> dest_x, dest_y |-> dest_y]}]
      sealed == Append(a.output_sheets, pasted)
  IN  IF SheetFull(pos_on_sheet)
      THEN Assembly(sealed, a.grid_position + 1, BlankSheet,
                    Append(a.progress, [value |-> LoopProgress(Len(sealed)),
                                        sheets |-> Len(sealed),
                                        at |-> "loop"]))
      ELSE Assembly(a.output_sheets, a.grid_position + 1, pasted, a.progress)

\* Mutant: the canvas in progress always appended at the end.
PartialSheetAlways(gp) == TRUE

\* if (grid_position % labels_per_sheet) != 0: output_sheets.append(...)
PartialSheet(gp) == (gp % labels_per_sheet) # 0

\* The final sheet and progress_bar.progress(1.0).
SealFinal(a) ==
  LET out == IF PartialSheet(a.grid_position)
             THEN Append(a.output_sheets, a.current_sheet)
             ELSE a.output_sheets
  IN  Assembly(out, a.grid_position, a.current_sheet,
               Append(a.progress, [value |-> FullProgress, sheets |-> Len(out),
                                   at |-> "final"]))

\* ------------------------------------------------------------- batch windows
\* Mutant: the loop left as soon as no full window remains.
LoopContinuesFullWindow == label_read_head + batch_size < total_pages

\* while label_read_head < st.session_state.total_pages
LoopContinues == label_read_head < total_pages

\* batch_end = min(label_read_head + BATCH_SIZE, total_pages)
BatchEnd == Min(label_read_head + batch_size, total_pages)

\* first_page = label_read_head + 1
FirstPage == label_read_head + 1

\* Mutant: the read head moved one page past the window.
ReadHeadPastWindow == batch_end + 1

\* label_read_head = batch_end
ReadHeadAfterBatch == batch_end

\* Page rasters the interpreter still references: the list batch_images and
\* the loop variable img, which stays bound after the for loop.
LiveRasters ==
  {batch_images[k] : k \in 1..Len(batch_images)} \cup
  (IF img = NoImage THEN {} ELSE {img})

\* ------------------------------------------------------------------- actions
\* "Load Preview": page count into the session, page 1 rasterized at 72 dpi.
\* pdfinfo_from_bytes or convert_from_bytes may raise (a corrupt file, a
\* missing native dependency); images[0] raises IndexError when the rasterizer
\* returns no page.
LoadPreview ==
  /\ pc = "upload"
  /\ preview_image = NoImage
  /\ \/ /\ pc' = "crashed"
        /\ err' = "RasterizerError"
        /\ UNCHANGED <<session, rasterizer_calls>>
     \/ /\ total_pages' = doc_pages
        /\ rasterizer_calls' = Append(rasterizer_calls, <<1, 1, preview_dpi>>)
        /\ \/ /\ pc' = "crashed"
              /\ err' = "RasterizerError"
              /\ UNCHANGED preview_image
           \/ LET images == Rasterize(1, 1)
              IN  IF Len(images) = 0
                  THEN /\ pc' = "crashed"
                       /\ err' = "IndexError"
                       /\ UNCHANGED preview_image
                  ELSE /\ preview_image' = images[1]
                       /\ pc' = "editor"
                       /\ UNCHANGED err
  /\ UNCHANGED <<inputs, preview, geometry, plan, assembly, window, artifact>>

\* The preview render of a script run with a loaded preview image. The loop
\* over the cells of one sheet draws the guide rectangle of each cell and
\* pastes the thumbnail at the cell PreviewShowsLabel selects. thumbnail()
\* raises for a non-positive effective size; whether rectangle() raises for a
\* negative cell size depends on the imaging library's version.
RenderPreview ==
  /\ pc = "editor"
  /\ preview_image # NoImage
  /\ LET ml_px == Px(m_left, preview_dpi)
         h_space_px == Px(h_spacing, preview_dpi)
         v_space_px == Px(v_spacing, preview_dpi)
         avail_w == Px(sheet_width, preview_dpi) - ml_px
                      - Px(m_right, preview_dpi)
         avail_h == Px(sheet_height, preview_dpi) - Px(m_top, preview_dpi)
                      - Px(m_top, preview_dpi)
         w == IF use_custom_size THEN Px(label_w_input, preview_dpi)
                                 ELSE LabelSize(avail_w, cols, h_space_px)
         h == IF use_custom_size THEN Px(label_h_input, preview_dpi)
                                 ELSE LabelSize(avail_h, rows, v_space_px)
         cells == 0..(cols * rows - 1)
         shown == {pos \in cells : PreviewShowsLabel(pos + 1)}
         thumb_raises == shown # {} /\ (Scaled(w) <= 0 \/ Scaled(h) <= 0)
         Guides(upto) == IF show_grid THEN {pos \in cells : pos <= upto} ELSE {}
     IN  /\ final_label_w' = w
         /\ final_label_h' = h
         /\ \/ /\ show_grid /\ (w < 0 \/ h < 0)
               /\ preview_sheet' = BlankSheet
               /\ pc' = "crashed"
               /\ err' = "ValueError"
            \/ /\ thumb_raises
               /\ preview_sheet' = [pastes |-> {},
                                    guides |-> Guides(start_pos - 1)]
               /\ pc' = "crashed"
               /\ err' = "ValueError"
            \/ /\ ~thumb_raises
               /\ preview_sheet' =
                    [pastes |-> {[page |-> preview_image, pos |-> pos] :
                                   pos \in shown},
                     guides |-> Guides(cols * rows)]
               /\ pc' = "ready"
               /\ UNCHANGED err
  /\ UNCHANGED <<inputs, session, rasterizer_calls, geometry, plan, assembly,
                 window, artifact>>

\* "Generate Full PDF" up to the batch loop: progress bar at 0, the geometry at
\* 300 dpi, the sheet plan, the loop's counters and the first blank canvas.
GenerateStart ==
  /\ pc = "ready"
  /\ LET ml == Px(m_left, final_dpi)
         mt == Px(m_top, final_dpi)
         hs == Px(h_spacing, final_dpi)
         vs == Px(v_spacing, final_dpi)
         aw == Px(sheet_width, final_dpi) - ml - Px(m_right, final_dpi)
         ah == Px(sheet_height, final_dpi) - mt - Px(m_top, final_dpi)
     IN  /\ f_ml' = ml
         /\ f_mt' = mt
         /\ f_hspace' = hs
         /\ f_vspace' = vs
         /\ f_avail_w' = aw
         /\ f_avail_h' = ah
         /\ f_lbl_w' = IF use_custom_size THEN Px(label_w_input, final_dpi)
                                          ELSE LabelSize(aw, cols, hs)
         /\ f_lbl_h' = IF use_custom_size THEN Px(label_h_input, final_dpi)
                                          ELSE LabelSize(ah, rows, vs)
  /\ output_sheets' = <<>>
  /\ labels_per_sheet' = cols * rows
  /\ total_out_sheets' =
       ((total_pages + (start_pos - 1)) + cols * rows - 1) \div (cols * rows)
  /\ grid_position' = 0
  /\ label_read_head' = 0
  /\ current_sheet' = BlankSheet
  /\ progress' = <<[value |-> 0, sheets |-> 0, at |-> "start"]>>
  /\ pc' = "loop"
  /\ UNCHANGED <<inputs, session, err, rasterizer_calls, preview, batch_end,
                 batch_images, batch_idx, img, artifact>>

\* One pass of the while loop up to the for loop: the window's range and the
\* rasterizer call, which returns the window's rasters or raises.
LoadBatch ==
  /\ pc = "loop"
  /\ LoopContinues
  /\ batch_end' = BatchEnd
  /\ rasterizer_calls' =
       Append(rasterizer_calls, <<FirstPage, BatchEnd, final_dpi>>)
  /\ \/ /\ batch_images' = Rasterize(FirstPage, BatchEnd)
        /\ batch_idx' = 1
        /\ pc' = "place"
        /\ UNCHANGED err
     \/ /\ pc' = "failed"
        /\ err' = "RasterizerError"
        /\ UNCHANGED <<batch_images, batch_idx>>
  /\ UNCHANGED <<inputs, session, preview, geometry, plan, assembly,
                 label_read_head, img, artifact>>

\* One iteration of "for img in batch_images": the leading cells are skipped,
\* then the raster is composited and pasted, or the compositor raises.
PlaceImage ==
  /\ pc = "place"
  /\ batch_idx <= Len(batch_images)
  /\ img' = batch_images[batch_idx]
  /\ LET skipped == SkipLeading(Assembly(output_sheets, grid_position,
                                         current_sheet, progress))
         eff_w == Scaled(f_lbl_w)
         eff_h == Scaled(f_lbl_h)
     IN  \/ /\ CompositeCanSucceed(eff_w, eff_h)
            /\ LET placed == PasteLabel(skipped, batch_images[batch_idx])
               IN  /\ output_sheets' = placed.output_sheets
                   /\ grid_position' = placed.grid_position
                   /\ current_sheet' = placed.current_sheet
                   /\ progress' = placed.progress
            /\ batch_idx' = batch_idx + 1
            /\ UNCHANGED <<pc, err>>
         \/ /\ CompositeCanFail(eff_w, eff_h)
            /\ output_sheets' = skipped.output_sheets
            /\ grid_position' = skipped.grid_position
            /\ current_sheet' = skipped.current_sheet
            /\ progress' = skipped.progress
            /\ pc' = "failed"
            /\ err' = IF CompositeCanSucceed(eff_w, eff_h) THEN "MemoryError"
                                                         ELSE "ValueError"
            /\ UNCHANGED batch_idx
  /\ UNCHANGED <<inputs, session, rasterizer_calls, preview, geometry, plan,
                 label_read_head, batch_end, batch_images, artifact>>

\* After the for loop: label_read_head = batch_end, del batch_images,
\* gc.collect().
EndBatch ==
  /\ pc = "place"
  /\ batch_idx > Len(batch_images)
  /\ label_read_head' = ReadHeadAfterBatch
  /\ batch_images' = <<>>
  /\ pc' = "loop"
  /\ UNCHANGED <<inputs, session, err, rasterizer_calls, preview, geometry,
                 plan, assembly, batch_end, batch_idx, img, artifact>>

\* After the while loop: the final sheet, progress 1.0, the PDF writer on
\* output_sheets[0] (IndexError on an empty list) and the download button.
Finish ==
  /\ pc = "loop"
  /\ ~LoopContinues
  /\ LET final == SealFinal(Assembly(output_sheets, grid_position,
                                     current_sheet, progress))
     IN  /\ output_sheets' = final.output_sheets
         /\ progress' = final.progress
         /\ IF Len(final.output_sheets) = 0
            THEN /\ pc' = "failed"
                 /\ err' = "IndexError"
                 /\ UNCHANGED artifact
            ELSE /\ pdf_buffer' = final.output_sheets
                 /\ download' = TRUE
                 /\ pc' = "done"
                 /\ UNCHANGED err
  /\ UNCHANGED <<inputs, session, rasterizer_calls, preview, geometry, plan,
                 grid_position, current_sheet, window>>

Next ==
  \/ LoadPreview
  \/ RenderPreview
  \/ GenerateStart
  \/ LoadBatch
  \/ PlaceImage
  \/ EndBatch
  \/ Finish

\* --------------------------------------------------------------- initial states
\* A file has been uploaded and the widgets hold their values; nothing has
\* been loaded or rendered yet.
Fresh ==
  /\ total_pages = 0
  /\ preview_image = NoImage
  /\ pc = "upload"
  /\ err = "none"
  /\ rasterizer_calls = <<>>
  /\ final_label_w = 0
  /\ final_label_h = 0
  /\ preview_sheet = BlankSheet
  /\ f_ml = 0 /\ f_mt = 0 /\ f_hspace = 0 /\ f_vspace = 0
  /\ f_avail_w = 0 /\ f_avail_h = 0 /\ f_lbl_w = 0 /\ f_lbl_h = 0
  /\ output_sheets = <<>>
  /\ labels_per_sheet = 0
  /\ total_out_sheets = 0
  /\ grid_position = 0
  /\ label_read_head = 0
  /\ batch_end = 0
  /\ current_sheet = BlankSheet
  /\ batch_images = <<>>
  /\ batch_idx = 0
  /\ img = NoImage
  /\ progress = <<>>
  /\ pdf_buffer = <<>>
  /\ download = FALSE

\* The widgets' default sheet: 8.5 x 11 in, gaps 0.1 in, margins 0.5 / 0.25 in,
\* auto-fill sizing, scale 100 %, "fit".
Init ==
  /\ doc_pages \in 0..MaxPages
  /\ start_pos \in 1..MaxStart
  /\ cols \in 1..MaxCols
  /\ rows \in 1..MaxRows
  /\ batch_size \in 1..MaxBatch
  /\ show_grid \in BOOLEAN
  /\ sheet_width = 170 /\ sheet_height = 220
  /\ h_spacing = 2 /\ v_spacing = 2
  /\ m_top = 10 /\ m_left = 5 /\ m_right = 5
  /\ use_custom_size = FALSE
  /\ label_w_input = 70 /\ label_h_input = 40
  /\ img_scale = 100
  /\ resize_mode = "fit"
  /\ Fresh

Spec == Init /\ [][Next]_vars

\* Many sheet configurations, small documents, one page per window; the start
\* position is among the first cells or the first cell of the second sheet.
InitGeom ==
  /\ doc_pages \in 1..GeomMaxPages
  /\ \E g \in GeomGrids : cols = g[1] /\ rows = g[2]
  /\ start_pos \in (1..GeomMaxStart) \cup {cols * rows + 1}
  /\ batch_size = 1
  /\ show_grid \in BOOLEAN
  /\ sheet_width = 170 /\ sheet_height = 220
  /\ h_spacing \in GeomHGaps
  /\ v_spacing \in GeomVGaps
  /\ m_top \in GeomTopMargins
  /\ m_left \in GeomLeftMargins
  /\ m_right \in GeomRightMargins
  /\ use_custom_size \in BOOLEAN
  /\ label_w_input = 70 /\ label_h_input = 40
  /\ img_scale \in GeomScales
  /\ resize_mode \in {"fit", "fill", "stretch"}
  /\ Fresh

SpecGeom == InitGeom /\ [][Next]_vars

\* ==================================================================== claims
\* Phases of the generate handler, from the start of the batch loop on.
Generating == pc \in {"loop", "place", "failed", "done"}

\* Every paste made into a batch sheet so far, with the 0-based index of its
\* sheet in the output; the canvas in progress will be sheet Len(output_sheets)
\* (once the run is done it is the last sealed sheet itself, or blank).
Placements ==
  UNION {{<<n - 1, p>> : p \in output_sheets[n].pastes} :
           n \in 1..Len(output_sheets)}
  \cup (IF pc = "done" THEN {}
        ELSE {<<Len(output_sheets), p>> : p \in current_sheet.pastes})

PlacedPages == {e[2].page : e \in Placements}

\* The smallest k with k * b >= a, for a >= 0 and b > 0.
CeilDiv(a, b) == CHOOSE k \in 0..a : k * b >= a /\ (k - 1) * b < a

\* ---- C1
\* One window holding the whole document: the loop body applied to the rasters
\* of pages 1..total_pages in order, then the final sheet.
RECURSIVE PlaceAll(_, _)
PlaceAll(a, pages) ==
  IF pages = <<>> THEN a
  ELSE PlaceAll(PasteLabel(SkipLeading(a), Head(pages)), Tail(pages))

SingleWindow(n) ==
  PlaceAll(Assembly(<<>>, 0, BlankSheet, <<>>), [k \in 1..n |-> k])

SingleWindowSheets == SealFinal(SingleWindow(total_pages)).output_sheets

C2_SheetCount ==
  pc = "done" =>
    /\ Len(pdf_buffer) = CeilDiv(total_pages + start_pos - 1, cols * rows)
    /\ Len(pdf_buffer) = total_out_sheets
    /\ output_sheets = pdf_buffer
    /\ (total_pages = 10 /\ cols = 3 /\ rows = 4 /\ start_pos = 1) =>
         Len(pdf_buffer) = 1
    /\ (total_pages = 10 /\ cols = 3 /\ rows = 4 /\ start_pos = 5) =>
         Len(pdf_buffer) = 2

\* A finished run with a whole leading blank sheet whose labels end exactly at
\* the end of a sheet.
C2_Witness ==
  /\ pc = "done"
  /\ start_pos - 1 >= cols * rows
  /\ (total_pages + start_pos - 1) % (cols * rows) = 0
  /\ cols * rows >= 2
  /\ pdf_buffer[1] = BlankSheet

\* ---- C3
\* C3: every raster pasted is the next page in page order, each page at most
\* once, page i at global grid position (start_pos - 1) + (i - 1): on sheet
\* g div (cols*rows), cell g mod (cols*rows), column cell mod cols, row
\* cell div cols; nothing is pasted below position start_pos - 1; a finished
\* run has pasted every page 1..N.
C3_StartOffsetAndPageOrder ==
  /\ \A e \in Placements :
       LET g == e[1] * (cols * rows) + e[2].pos
       IN  /\ e[2].pos \in 0..(cols * rows - 1)
           /\ g = (start_pos - 1) + (e[2].page - 1)
           /\ g >= start_pos - 1
           /\ e[2].c_idx = e[2].pos % cols
           /\ e[2].r_idx = e[2].pos \div cols
  /\ PlacedPages = 1..Cardinality(Placements)
  /\ pc = "done" => PlacedPages = 1..total_pages

\* A finished run with start_pos = 3 on a grid of four cells: cells 0 and 1 of
\* the first sheet are empty and page 1 is in cell 2.
C3_Witness ==
  /\ pc = "done"
  /\ start_pos = 3
  /\ cols = 2 /\ rows = 2
  /\ total_pages >= 3
  /\ {p.pos : p \in pdf_buffer[1].pastes} = {2, 3}
  /\ \E p \in pdf_buffer[1].pastes : p.page = 1 /\ p.pos = 2

\* ---- C4
\* C4: the PDF writer is invoked, and the download offered, only in a run that
\* raised nothing, after every page 1..N was rasterized and placed and the
\* final sheet sealed; a run in which the rasterizer or the compositor raised
\* has stopped for good with no PDF and no download.
C4_AtomicOutput ==
  /\ (pdf_buffer # <<>> \/ download) =>
       /\ pc = "done"
       /\ err = "none"
       /\ download
       /\ label_read_head = total_pages
       /\ PlacedPages = 1..total_pages
       /\ pdf_buffer = output_sheets
       /\ ~PartialSheet(grid_position) \/
            pdf_buffer[Len(pdf_buffer)] = current_sheet
  /\ err # "none" =>
       /\ pc \in {"failed", "crashed"}
       /\ pdf_buffer = <<>>
       /\ ~download
       /\ ~ENABLED Next

\* A run whose second window failed after the first window's pages were
\* placed.
C4_Witness ==
  /\ pc = "failed"
  /\ err = "RasterizerError"
  /\ Len(rasterizer_calls) = 3
  /\ Cardinality(PlacedPages) = 2
  /\ Len(output_sheets) >= 1
  /\ pdf_buffer = <<>>

\* ---- C5
\* The auto-fill cell computed by the generate handler has a non-positive side.
InvalidAutoLayout ==
  Generating /\ ~use_custom_size /\ (f_lbl_w <= 0 \/ f_lbl_h <= 0)

\* C5: in auto-fill mode with a non-positive computed cell width or height the
\* run reports InvalidConfiguration and aborts before any rendering: no
\* rasterizer call for the batch, no paste into a sheet, no PDF.
C5_InvalidConfigurationReported ==
  InvalidAutoLayout =>
    /\ err = "InvalidConfiguration"
    /\ \A k \in 1..Len(rasterizer_calls) : rasterizer_calls[k][3] # final_dpi
    /\ Placements = {}
    /\ pdf_buffer = <<>>

\* ---- C6
\* C6: a document of zero pages is reported as EmptyDocument, distinct from a
\* generic crash, with no sheet generated and the PDF writer never invoked.
C6_EmptyDocumentReported ==
  (doc_pages = 0 /\ pc # "upload" /\ err # "RasterizerError") =>
    /\ err = "EmptyDocument"
    /\ output_sheets = <<>>
    /\ pdf_buffer = <<>>

\* ---- C7
\* The floor-division bound along one axis: n cells and n - 1 gaps fit into
\* avail with fewer than n pixels left over, so the last cell ends at or
\* before far_edge, the sheet's extent less the far margin.
FitsAxis(size, n, space, avail, margin, far_edge) ==
  LET used == size * n + (n - 1) * space
  IN  /\ used <= avail
      /\ (avail - used) \in 0..(n - 1)
      /\ CellOrigin(margin, n - 1, size, space) + size <= far_edge

\* C7: in auto-fill mode with non-negative available width (height), the cell
\* width (height) the generate handler computes satisfies the fit bound with
\* a residual in [0, cols - 1] ([0, rows - 1]), and the last column's right
\* edge (last row's bottom edge) does not pass the sheet less the far margin.
C7_AutoSizingFitBound ==
  (Generating /\ ~use_custom_size) =>
    /\ f_avail_w >= 0 =>
         FitsAxis(f_lbl_w, cols, f_hspace, f_avail_w, f_ml,
                  Px(sheet_width, final_dpi) - Px(m_right, final_dpi))
    /\ f_avail_h >= 0 =>
         FitsAxis(f_lbl_h, rows, f_vspace, f_avail_h, f_mt,
                  Px(sheet_height, final_dpi) - Px(m_top, final_dpi))

\* An auto-fill layout of several columns and rows whose division leaves a
\* remainder in both directions.
C7_Witness ==
  /\ Generating
  /\ ~use_custom_size
  /\ cols >= 2 /\ rows >= 2
  /\ f_lbl_w > 0 /\ f_lbl_h > 0
  /\ f_avail_w - (f_lbl_w * cols + (cols - 1) * f_hspace) > 0
  /\ f_avail_h - (f_lbl_h * rows + (rows - 1) * f_vspace) > 0

\* ---- C8
\* C8: the values passed to the progress bar never decrease; a value reported
\* from inside the batch loop is min(sealed sheets / expected sheets, 0.99),
\* below 100 %; 100 % is reported at most once, as the last value, after the
\* final sheet has been sealed, and a finished run has reported it.
C8_ProgressReporting ==
  /\ \A i, j \in 1..Len(progress) :
       i < j => progress[i].value <= progress[j].value
  /\ \A i \in 1..Len(progress) :
       /\ progress[i].at = "loop" =>
            /\ progress[i].value =
                 Min(100 * progress[i].sheets, 99 * total_out_sheets)
            /\ progress[i].value < 100 * total_out_sheets
       /\ progress[i].value = 100 * total_out_sheets =>
            /\ i = Len(progress)
            /\ progress[i].at = "final"
            /\ progress[i].sheets = total_out_sheets
            /\ Len(output_sheets) = total_out_sheets
            /\ label_read_head = total_pages
  /\ pc = "done" =>
       /\ Len(progress) >= 2
       /\ progress[Len(progress)].value = 100 * total_out_sheets

\* A finished run whose last sheet was filled exactly: the loop reported the
\* clamped value for it, and 100 % followed.
C8_Witness ==
  /\ pc = "done"
  /\ total_out_sheets >= 2
  /\ Len(progress) >= 4
  /\ \E i \in 1..Len(progress) :
       /\ progress[i].at = "loop"
       /\ progress[i].sheets = total_out_sheets
       /\ progress[i].value = 99 * total_out_sheets

\* ---- C9
\* The batch calls of the rasterizer, in order.
BatchCalls == SelectSeq(rasterizer_calls, LAMBDA c : c[3] = final_dpi)

\* C9: the page rasters held are at most one window's, at most the batch size,
\* all of the window [label_read_head + 1, batch_end]; none is held when the
\* next window is requested; the windows requested are consecutive disjoint
\* ranges from page 1 on.
C9_BoundedMemory ==
  /\ Cardinality(LiveRasters) <= batch_size
  /\ pc = "place" => LiveRasters \subseteq (label_read_head + 1)..batch_end
  /\ (pc = "loop" /\ LoopContinues) => LiveRasters = {}
  /\ \A k \in 1..Len(BatchCalls) :
       /\ BatchCalls[k][1] = (IF k = 1 THEN 1 ELSE BatchCalls[k - 1][2] + 1)
       /\ BatchCalls[k][1] <= BatchCalls[k][2]
       /\ BatchCalls[k][2] - BatchCalls[k][1] + 1 <= batch_size
  /\ pc = "done" => BatchCalls[Len(BatchCalls)][2] = total_pages

\* ---- C10
\* All sheet canvases of the batch path.
BatchSheets ==
  {output_sheets[n] : n \in 1..Len(output_sheets)} \cup {current_sheet}

\* The preview render has run to its end.
PreviewRendered == pc \in {"ready", "loop", "place", "failed", "done"}

\* C10 as claimed: for every allowed start position the preview pastes the
\* page-1 raster at exactly one cell, the one with ordinal start_pos.
C10_PreviewPastesExactlyOne ==
  PreviewRendered =>
    /\ Cardinality(preview_sheet.pastes) = 1
    /\ \A p \in preview_sheet.pastes : p.page = 1 /\ p.pos + 1 = start_pos

\* C10: the preview never pastes a raster anywhere but at the cell with
\* ordinal start_pos, and at no cell when start_pos exceeds cols * rows; it
\* draws no guide when guides are off; a render that runs to its end (it
\* raises when the scaled cell size is not positive) has pasted the page-1
\* raster at that cell if start_pos is at most cols * rows and has drawn a
\* guide rectangle for every cell when guides are enabled; the render makes
\* no rasterizer call; no batch sheet ever carries a guide.
C10_PreviewPlacement ==
  /\ preview_sheet.pastes \subseteq {[page |-> 1, pos |-> start_pos - 1]}
  /\ start_pos > cols * rows => preview_sheet.pastes = {}
  /\ preview_sheet.guides \subseteq 0..(cols * rows - 1)
  /\ ~show_grid => preview_sheet.guides = {}
  /\ PreviewRendered =>
       /\ start_pos <= cols * rows =>
            preview_sheet.pastes = {[page |-> 1, pos |-> start_pos - 1]}
       /\ show_grid => preview_sheet.guides = 0..(cols * rows - 1)
  /\ pc \in {"ready", "crashed"} =>
       \A k \in 1..Len(rasterizer_calls) :
         rasterizer_calls[k] = <<1, 1, preview_dpi>>
  /\ \A sh \in BatchSheets : sh.guides = {}

\* A rendered preview of a grid of several cells with guides on and the
\* thumbnail in the second cell only.
C10_Witness ==
  /\ pc = "ready"
  /\ show_grid
  /\ start_pos = 2
  /\ cols * rows >= 6
  /\ Cardinality(preview_sheet.guides) = cols * rows
  /\ preview_sheet.pastes = {[page |-> 1, pos |-> 1]}

====
